---- MODULE Spec2Model ----
(***************************************************************************)
(* Model of the YC cofounder matcher bot (src/main_selenium.py).           *)
(*                                                                         *)
(* Text is a sequence of tokens: a word, a label such as "NAME:" or the    *)
(* newline token NL.  The candidate log file is one such text; the oracle  *)
(* response and the profile text are others.  main() is a single thread    *)
(* of control; pc is its position, one value per call to a collaborator    *)
(* (browser, oracle, human, log file).  An exception leaving the try       *)
(* block runs the finally clause in the same step.                         *)
(***************************************************************************)
EXTENDS Integers, Sequences, FiniteSets, TLC

\* Iterations of the unbounded `while True` loop that the model explores.
MaxProfiles == 2

NL == "\n"
SEP == "============================================================"

\* ------------------------------------------------------------------ text
Min(S) == CHOOSE x \in S : \A y \in S : x <= y
Max(S) == CHOOSE x \in S : \A y \in S : x >= y

IsPrefix(s, t) == Len(s) <= Len(t) /\ SubSeq(t, 1, Len(s)) = s

\* str.upper() on the tokens the oracle can produce.
Upper(tok) ==
  CASE tok = "yes" -> "YES"
    [] tok = "Yes" -> "YES"
    [] tok = "no" -> "NO"
    [] tok = "experience:" -> "EXPERIENCE:"
    [] tok = "Experience:" -> "EXPERIENCE:"
    [] tok = "maybe" -> "MAYBE"
    [] OTHER -> tok

\* str.lower() on the answers a human can type at the prompt.
Lower(tok) ==
  CASE tok = "Y" -> "y"
    [] tok = "Q" -> "q"
    [] tok = "N" -> "n"
    [] OTHER -> tok

\* str.strip() at token level: drop leading and trailing newlines.
Strip(t) ==
  LET keep == {i \in 1..Len(t) : t[i] # NL}
  IN IF keep = {} THEN <<>> ELSE SubSeq(t, Min(keep), Max(keep))

\* ---------------------------------------------------- response parser
\* re.search(r"NAME:\s*(.+)", analysis): the first NAME: label that is
\* followed, after any whitespace (newlines included), by a non-newline
\* character; the group runs to the end of that line.
NameMatches(t) ==
  {i \in 1..Len(t) : t[i] = "NAME:" /\ \E j \in (i+1)..Len(t) : t[j] # NL}

ParseName(t) ==
  IF NameMatches(t) = {} THEN <<"Unknown">>
  ELSE LET i == Min(NameMatches(t))
           j == Min({k \in (i+1)..Len(t) : t[k] # NL})
           e == Max({k \in j..Len(t) : \A m \in j..k : t[m] # NL})
       IN Strip(SubSeq(t, j, e))

\* The (YES|NO) alternative under re.IGNORECASE matches a prefix of the token.
YesNoPrefix(tok) ==
  CASE Upper(tok) \in {"YES", "YESTERDAY"} -> "YES"
    [] Upper(tok) \in {"NO", "NOT", "NONE"} -> "NO"
    [] OTHER -> ""

\* re.search(r"EXPERIENCE:\s*(YES|NO)", analysis, re.IGNORECASE)
ExperienceMatches(t) ==
  {i \in 1..Len(t) :
     /\ Upper(t[i]) = "EXPERIENCE:"
     /\ \E j \in (i+1)..Len(t) :
          /\ \A m \in (i+1)..(j-1) : t[m] = NL
          /\ YesNoPrefix(t[j]) # ""}

\* A search that lets the last matching EXPERIENCE label decide.
ParseExperience_LastMatch(t) ==
  IF ExperienceMatches(t) = {} THEN "None"
  ELSE LET i == Max(ExperienceMatches(t))
           j == Min({k \in (i+1)..Len(t) : t[k] # NL})
       IN IF YesNoPrefix(t[j]) = "YES" THEN "True" ELSE "False"

\* has_experience = experience_match and group(1).upper() == "YES":
\* None when nothing matched, otherwise a bool.
ParseExperience(t) ==
  IF ExperienceMatches(t) = {} THEN "None"
  ELSE LET i == Min(ExperienceMatches(t))
           j == Min({k \in (i+1)..Len(t) : t[k] # NL})
       IN IF YesNoPrefix(t[j]) = "YES" THEN "True" ELSE "False"

\* re.search(r"SUMMARY:\s*(.+)", analysis, re.DOTALL): everything after the
\* first SUMMARY: label that has at least one character after it.
SummaryMatches(t) == {i \in 1..Len(t) : t[i] = "SUMMARY:" /\ i < Len(t)}

ParseSummary(t) ==
  IF SummaryMatches(t) = {} THEN <<"No", "summary", "available">>
  ELSE Strip(SubSeq(t, Min(SummaryMatches(t)) + 1, Len(t)))

\* A flag test that lets the unparsed None through as well as True.
Truthy_NotFalse(flag) == flag # "False"

\* Python truthiness of has_experience in `if has_experience:`.
Truthy(flag) == flag = "True"

\* The tuple analyze_text_for_interests returns for the oracle's answer t.
analyze_text_for_interests(t) ==
  [flag |-> ParseExperience(t), name |-> ParseName(t),
   summary |-> ParseSummary(t)]

\* ---------------------------------------------------------- log writer
\* The f-string entry of save_candidate_to_file.
EntryText(timestamp, name, url, sum) ==
  <<NL, SEP, NL, "Date:">> \o timestamp \o <<NL, "Name:">> \o name
    \o <<NL, "URL:", url, NL, "Reason:">> \o sum \o <<NL, SEP, NL, NL>>

\* The file opened with "w" instead of "a".
AppendToFile_Truncate(content, entry) == entry

\* open(filename, "a") followed by f.write(entry).
AppendToFile(content, entry) == content \o entry

\* len([line for line in f.readlines() if line.startswith("Name:")])
CountNameLines(content) ==
  Cardinality({i \in 1..Len(content) :
                 content[i] = "Name:" /\ (i = 1 \/ content[i-1] = NL)})

\* ------------------------------------------------------------ the run
\* main(model="qwen2.5:32b", ...) as invoked by the script.
model == "qwen2.5:32b"
\* The model lists client.list() can report: empty, without the configured
\* model, with it.
ModelLists == {{}, {"llama3.2"}, {"llama3.2", "qwen2.5:32b"}}

StartUrl == "https://www.startupschool.org/cofounder-matching"
ProfilePages == {"profile/1", "profile/2"}

\* What the rendered profile element can hold: nothing, or some text.
PageTexts == {<<>>, <<"built", "robots">>}

\* datetime.now().strftime("%Y-%m-%d %H:%M:%S")
Timestamps == {<<"2026-01-01", "10:00:00">>, <<"2026-01-01", "10:00:05">>}

\* Free-form answers of the oracle (response["response"]).
Responses ==
  { <<"NAME:", "Jane", "Doe", NL, "EXPERIENCE:", "YES", NL,
      "SUMMARY:", "built", "surgical", "robot">>,
    <<"NAME:", "Bob", NL, "EXPERIENCE:", "NO", NL,
      "SUMMARY:", "only", "interest">>,
    <<"NAME:", "Ann", NL, "EXPERIENCE:", "yes", NL,
      "SUMMARY:", "roles", "held", NL, "Name:", "Acme", "Robotics">>,
    <<"SUMMARY:", "lab", "work", NL, "EXPERIENCE:", "YES", NL,
      "NAME:", "Eve">>,
    <<"sorry,", "cannot", "answer">> }

\* What the human can type at the confirmation prompt.
Inputs == {"y", "Y", "q", "n", ""}

\* A record the log already holds from an earlier run.
PriorLogs ==
  { <<>>,
    EntryText(<<"2025-12-31", "09:00:00">>, <<"Old", "Match">>, "profile/0",
              <<"earlier", "run">>) }

Ops == {"Chrome", "maximize_window", "get", "get_page_text", "generate",
        "current_url", "save_candidate_to_file", "click_skip_button",
        "input", "quit"}

VARIABLES
  pc,               \* position of main()
  debug,            \* confirmed mode (True) or autonomous mode (False)
  ollama_up,        \* the inference server answers client.list()
  available_models, \* the models client.list() reports
  driver,           \* browsing session: "none", "open" or "quit"
  location,         \* driver.current_url
  profile_count,
  page_text,
  has_experience,
  person_name,
  summary,
  profile_url,
  response,         \* the lowered answer read at the confirmation prompt
  log,              \* content of recommended_candidates.txt
  candidate_count,  \* the count printed as "Total candidates saved"
  fault,            \* the exception that left main(), "" if none
  calls,            \* number of invocations of each collaborator operation
  log0,             \* the log when the run started
  iter_log,         \* the log when the current iteration was entered
  iter_calls,       \* calls when the current iteration was entered
  extract_url,      \* the browser's location when get_page_text last ran
  verdicts,         \* the verdicts returned by the oracle adapter, in order
  \* analyze_text_for_interests on its own
  parse_input,      \* the oracle's answer handed to the parser
  verdict,          \* what the parser returned for it
  \* format_text_with_line_breaks on its own
  text0,            \* the text first handed to the formatter
  words_per_line,
  passes,           \* the outputs of the successive applications
  \* main() of format_text.py
  fmt_pc,
  input_file,       \* recommended_candidates.txt as the formatter finds it
  content,          \* what was read from it
  output_file,      \* formatted_candidates.txt
  output_file0      \* formatted_candidates.txt before the run

parser_vars == <<parse_input, verdict>>
format_vars == <<text0, words_per_line, passes>>
fmain_vars == <<fmt_pc, input_file, content, output_file, output_file0>>
pure == <<parser_vars, format_vars, fmain_vars>>

main_vars == <<pc, debug, ollama_up, available_models, driver, location,
          profile_count, page_text, has_experience, person_name, summary,
          profile_url, response, log, candidate_count, fault, calls, log0,
          iter_log, iter_calls, extract_url, verdicts>>

vars == <<main_vars, pure>>

config == <<debug, ollama_up, available_models, log0>>
locals == <<page_text, has_experience, person_name, summary, profile_url,
            response>>
iter == <<iter_log, iter_calls, extract_url>>

Bump(c, op) == [c EXCEPT ![op] = @ + 1]

Terminated == pc \in {"returned_false", "returned_true", "raised"}

\* The parts of the model a specification does not exercise stay as they are.
Unparsed == [flag |-> "unparsed", name |-> <<>>, summary |-> <<>>]
ParserIdle == parse_input = <<>> /\ verdict = Unparsed
FormatIdle == text0 = <<>> /\ words_per_line = 15 /\ passes = <<>>
FormatterMainIdle ==
  /\ fmt_pc = "idle"
  /\ input_file = [state |-> "missing", text |-> <<>>]
  /\ content = <<>>
  /\ output_file = [exists |-> FALSE, text |-> <<>>]
  /\ output_file0 = [exists |-> FALSE, text |-> <<>>]

Init ==
  /\ ParserIdle /\ FormatIdle /\ FormatterMainIdle
  /\ pc = "check_ollama"
  /\ debug \in BOOLEAN
  /\ ollama_up \in BOOLEAN
  /\ available_models \in ModelLists
  /\ driver = "none"
  /\ location = "none"
  /\ profile_count = 0
  /\ page_text = <<>>
  /\ has_experience = "None"
  /\ person_name = <<>>
  /\ summary = <<>>
  /\ profile_url = "none"
  /\ response = ""
  /\ log \in PriorLogs
  /\ log0 = log
  /\ candidate_count = 0
  /\ fault = ""
  /\ calls = [op \in Ops |-> 0]
  /\ iter_log = log
  /\ iter_calls = calls
  /\ extract_url = "none"
  /\ verdicts = <<>>

\* check_ollama_connection without the `model_name not in available_models`
\* test.
check_ollama_connection_NoModelTest(model_name, up, listed) ==
  IF ~up THEN "raise" ELSE "True"

\* check_ollama_connection: client.list() raises when the server is
\* unreachable; otherwise the result says whether the model is listed.
check_ollama_connection(model_name, up, listed) ==
  IF ~up THEN "raise"
  ELSE IF model_name \notin listed THEN "False"
  ELSE "True"

\* An exception raised inside `try:` runs the finally clause (driver.quit())
\* and leaves main().
Finally(op, exc) ==
  /\ driver' = "quit"
  /\ calls' = Bump(Bump(calls, op), "quit")
  /\ fault' = exc
  /\ pc' = "raised"

\* main(), lines 250-255.
CheckOllama ==
  /\ pc = "check_ollama"
  /\ LET r == check_ollama_connection(model, ollama_up, available_models)
     IN /\ pc' = CASE r = "raise" -> "raised"
                   [] r = "False" -> "returned_false"
                   [] OTHER -> "start_browser"
        /\ fault' = IF r = "raise" THEN "OllamaUnreachable" ELSE ""
  /\ UNCHANGED <<config, pure, driver, location, profile_count, locals, log,
                 candidate_count, calls, iter, verdicts>>

\* driver = webdriver.Chrome(), line 260, outside the try block.
StartBrowser ==
  /\ pc = "start_browser"
  /\ calls' = Bump(calls, "Chrome")
  /\ \/ /\ driver' = "open"
        /\ location' = "about:blank"
        /\ pc' = "maximize"
        /\ UNCHANGED fault
     \/ /\ pc' = "raised"
        /\ fault' = "BrowserStartFailed"
        /\ UNCHANGED <<driver, location>>
  /\ UNCHANGED <<config, pure, profile_count, locals, log, candidate_count, iter,
                 verdicts>>

\* driver.maximize_window(), line 261, still outside the try block.
MaximizeWindow ==
  /\ pc = "maximize"
  /\ calls' = Bump(calls, "maximize_window")
  /\ \/ /\ pc' = "navigate"
        /\ UNCHANGED fault
     \/ /\ pc' = "raised"
        /\ fault' = "WindowInitFailed"
  /\ UNCHANGED <<config, pure, driver, location, profile_count, locals, log,
                 candidate_count, iter, verdicts>>

\* driver.get(...), line 266, the first statement of the try block.
Navigate ==
  /\ pc = "navigate"
  /\ \/ /\ calls' = Bump(calls, "get")
        /\ location' = StartUrl
        /\ pc' = "await_login"
        /\ UNCHANGED <<driver, fault>>
     \/ /\ Finally("get", "NavigationFailed")
        /\ UNCHANGED location
  /\ UNCHANGED <<config, pure, profile_count, locals, log, candidate_count, iter,
                 verdicts>>

\* A start of the loop that does not wait for the human.
AwaitManualStart_Unacknowledged ==
  /\ pc = "await_login"
  /\ profile_count' = 0
  /\ pc' = "loop"
  /\ UNCHANGED <<config, pure, driver, location, locals, log, candidate_count,
                 fault, calls, iter, verdicts>>

\* input("Press Enter when you're logged in..."), then profile_count = 0.
AwaitManualStart ==
  /\ pc = "await_login"
  /\ calls' = Bump(calls, "input")
  /\ profile_count' = 0
  /\ pc' = "loop"
  /\ UNCHANGED <<config, pure, driver, location, locals, log, candidate_count,
                 fault, iter, verdicts>>

\* The human (or the site) moves the browser to another page while main()
\* is blocked on input() or on the inference round trip.
HumanNavigates ==
  /\ driver = "open"
  /\ pc \in {"await_login", "classify", "prompt"}
  /\ \E u \in ProfilePages \ {location} : location' = u
  /\ UNCHANGED <<pc, config, pure, driver, profile_count, locals, log,
                 candidate_count, fault, calls, iter, verdicts>>

\* A loop entry that leaves the counter alone.
LoopEntry_NoIncrement ==
  /\ pc = "loop"
  /\ profile_count < MaxProfiles
  /\ iter_log' = log
  /\ iter_calls' = calls
  /\ pc' = "extract"
  /\ UNCHANGED <<profile_count, extract_url, config, pure, driver, location,
                 locals, log, candidate_count, fault, calls, verdicts>>

\* ------------------------------------------------------------ the loop
\* `while True:` entry, lines 279-281: profile_count += 1.
LoopEntry ==
  /\ pc = "loop"
  /\ profile_count < MaxProfiles
  /\ profile_count' = profile_count + 1
  /\ iter_log' = log
  /\ iter_calls' = calls
  /\ pc' = "extract"
  /\ UNCHANGED <<extract_url, config, pure, driver, location, locals, log,
                 candidate_count,
                 fault, calls, verdicts>>

\* get_page_text returns the element's text, or wait.until raises
\* TimeoutException, which nothing in main() catches.
ExtractOutcomes == {[raised |-> FALSE, text |-> t] : t \in PageTexts}
                     \cup {[raised |-> TRUE, text |-> <<>>]}

\* Empty page text handed to the oracle like any other.
AfterExtract_ClassifyEmpty(r) == IF r.raised THEN "raised" ELSE "classify"

\* What main() does with the outcome of get_page_text, lines 284-290.
AfterExtract(r) ==
  IF r.raised THEN "raised"
  ELSE IF r.text = <<>> THEN "skip_no_content"
  ELSE "classify"

\* page_text = get_page_text(driver, debug), line 284.
ExtractProfile ==
  /\ pc = "extract"
  /\ \E r \in ExtractOutcomes :
       IF AfterExtract(r) = "raised"
       THEN /\ Finally("get_page_text", "ExtractionTimeout")
            /\ UNCHANGED <<page_text, extract_url>>
       ELSE /\ page_text' = r.text
            /\ extract_url' = location
            /\ calls' = Bump(calls, "get_page_text")
            /\ pc' = AfterExtract(r)
            /\ UNCHANGED <<driver, fault>>
  /\ UNCHANGED <<config, pure, location, profile_count, has_experience,
                 person_name, summary, profile_url, response, log,
                 candidate_count, iter_log, iter_calls, verdicts>>

\* click_skip_button returns True after the click, or wait.until raises
\* TimeoutException; it has no path that returns False.
ClickSkipOutcomes == {"True", "raise"}

\* What main() does with the outcome of click_skip_button, lines 287-290
\* and 342-344: `if not click_skip_button(...)` guards the manual
\* intervention prompt, and an exception leaves the loop.
AfterAdvance(r) ==
  CASE r = "raise" -> "raised"
    [] r = "False" -> "manual_intervention"
    [] OTHER -> "loop"

\* The click of click_skip_button and what follows it in main().
Advance ==
  \E r \in ClickSkipOutcomes :
    IF AfterAdvance(r) = "raised"
    THEN /\ Finally("click_skip_button", "AdvanceFailed")
         /\ UNCHANGED location
    ELSE /\ calls' = Bump(calls, "click_skip_button")
         /\ \E u \in ProfilePages : location' = u
         /\ pc' = AfterAdvance(r)
         /\ UNCHANGED <<driver, fault>>

\* Lines 285-290: empty page text, skip the profile and `continue`.
SkipNoContent ==
  /\ pc = "skip_no_content"
  /\ Advance
  /\ UNCHANGED <<config, pure, profile_count, locals, log, candidate_count, iter,
                 verdicts>>

\* A decision that persists whatever the flag says.
AfterDecide_AlwaysPersist(flag, dbg) == "get_url"

\* A decision that asks the human in both modes.
AfterDecide_AlwaysPrompt(flag, dbg) ==
  IF Truthy(flag) THEN "get_url" ELSE "prompt"

\* A decision that goes on to the mode branch without persisting.
AfterDecide_SkipPersist(flag, dbg) == IF dbg THEN "prompt" ELSE "advance"

\* After the verdict: persist on a truthy flag (line 306), otherwise go on
\* to the mode branch of line 325.
AfterDecide(flag, dbg) ==
  IF Truthy(flag) THEN "get_url"
  ELSE IF dbg THEN "prompt" ELSE "advance"

\* analyze_text_for_interests, lines 297-299: client.generate may raise;
\* otherwise the response is parsed into the verdict.
Classify ==
  /\ pc = "classify"
  /\ \/ /\ Finally("generate", "OracleFailed")
        /\ UNCHANGED <<has_experience, person_name, summary, verdicts>>
     \/ \E analysis \in Responses :
          /\ has_experience' = ParseExperience(analysis)
          /\ person_name' = ParseName(analysis)
          /\ summary' = ParseSummary(analysis)
          /\ verdicts' = Append(verdicts,
                                [flag |-> ParseExperience(analysis),
                                 name |-> ParseName(analysis),
                                 summary |-> ParseSummary(analysis)])
          /\ calls' = Bump(calls, "generate")
          /\ pc' = AfterDecide(ParseExperience(analysis), debug)
          /\ UNCHANGED <<driver, fault>>
  /\ UNCHANGED <<config, pure, location, profile_count, page_text, profile_url,
                 response, log, candidate_count, iter>>

\* A location that is not read from the browser when the record is built.
get_profile_url_Stale(current_url) == StartUrl

\* get_profile_url: url = driver.current_url.
get_profile_url(current_url) == current_url

\* profile_url = get_profile_url(driver, debug), line 312.
GetProfileUrl ==
  /\ pc = "get_url"
  /\ \/ /\ profile_url' = get_profile_url(location)
        /\ calls' = Bump(calls, "current_url")
        /\ pc' = "save"
        /\ UNCHANGED <<driver, fault>>
     \/ /\ Finally("current_url", "LocationReadFailed")
        /\ UNCHANGED profile_url
  /\ UNCHANGED <<config, pure, location, profile_count, page_text, has_experience,
                 person_name, summary, response, log, candidate_count, iter,
                 verdicts>>

\* How much of the entry a failing save_candidate_to_file leaves in the
\* file: nothing (open failed), a part of it (write or flush failed), all of
\* it (the re-read failed).
FailedWriteCuts(entry) == {0, Len(entry) \div 2, Len(entry)}

\* save_candidate_to_file(person_name, profile_url, summary), line 315.
\* An exception in it leaves main().
SaveCandidate ==
  /\ pc = "save"
  /\ \E ts \in Timestamps :
       LET entry == EntryText(ts, person_name, profile_url, summary)
       IN \/ /\ log' = AppendToFile(log, entry)
             /\ candidate_count' = CountNameLines(log')
             /\ calls' = Bump(calls, "save_candidate_to_file")
             /\ pc' = IF debug THEN "prompt" ELSE "advance"
             /\ UNCHANGED <<driver, fault>>
          \/ \E k \in FailedWriteCuts(entry) :
               /\ log' = AppendToFile(log, SubSeq(entry, 1, k))
               /\ Finally("save_candidate_to_file", "LogWriteFailed")
               /\ UNCHANGED candidate_count
  /\ UNCHANGED <<config, pure, location, profile_count, locals, iter, verdicts>>

\* A prompt where only "q" stops the run.
AfterPrompt_OnlyQuitStops(answer) ==
  IF answer = "q" THEN "returned_true" ELSE "advance"

\* Lines 331-336: "q" stops, anything but "y" cancels, "y" goes on.
AfterPrompt(answer) ==
  IF answer = "q" THEN "returned_true"
  ELSE IF answer # "y" THEN "returned_true"
  ELSE "advance"

\* Confirmed mode, lines 325-336; a break reaches the session summary and
\* the finally clause, then `return True`.
Prompt ==
  /\ pc = "prompt"
  /\ \E typed \in Inputs :
       /\ response' = Lower(typed)
       /\ pc' = AfterPrompt(Lower(typed))
       /\ IF AfterPrompt(Lower(typed)) = "returned_true"
          THEN /\ driver' = "quit"
               /\ calls' = Bump(Bump(calls, "input"), "quit")
          ELSE /\ calls' = Bump(calls, "input")
               /\ UNCHANGED driver
  /\ UNCHANGED <<config, pure, location, profile_count, page_text, has_experience,
                 person_name, summary, profile_url, log, candidate_count,
                 fault, iter, verdicts>>

\* Lines 341-344: click_skip_button after a classified profile.
AdvanceProfile ==
  /\ pc = "advance"
  /\ Advance
  /\ UNCHANGED <<config, pure, profile_count, locals, log, candidate_count, iter,
                 verdicts>>

Next ==
  \/ CheckOllama
  \/ StartBrowser
  \/ MaximizeWindow
  \/ Navigate
  \/ AwaitManualStart
  \/ HumanNavigates
  \/ LoopEntry
  \/ ExtractProfile
  \/ SkipNoContent
  \/ Classify
  \/ GetProfileUrl
  \/ SaveCandidate
  \/ Prompt
  \/ AdvanceProfile

Spec == Init /\ [][Next]_vars

TypeOK ==
  /\ pc \in {"check_ollama", "start_browser", "maximize", "navigate",
             "await_login", "loop", "extract", "skip_no_content", "classify",
             "get_url", "save", "prompt", "advance", "returned_false",
             "returned_true", "raised"}
  /\ driver \in {"none", "open", "quit"}
  /\ profile_count \in 0..MaxProfiles
  /\ has_experience \in {"True", "False", "None"}

\* ---------------------------------------------------------------- claims

\* C1: once the webdriver has been created, every run that ends has torn
\* the session down (driver.quit) exactly once, whatever the exit path.
C1_TeardownOnEveryExit ==
  (Terminated /\ driver # "none") => (driver = "quit" /\ calls["quit"] = 1)

\* C2: an extraction timeout never ends the session: no run terminates
\* because get_page_text timed out.
C2_ExtractionTimeoutNeverTerminates ==
  ~(Terminated /\ fault = "ExtractionTimeout")

\* C3: a failed advance (click_skip_button) never terminates the session.
C3_FailedAdvanceNeverTerminates ==
  ~(Terminated /\ fault = "AdvanceFailed")

\* C4: when the inference server is unreachable or the configured model is
\* not listed, no browsing session is created and no navigation, extraction,
\* classification or log write happens in the run.
C4_AbortBeforeSession ==
  (~ollama_up \/ model \notin available_models) =>
     /\ driver = "none"
     /\ \A op \in Ops : calls[op] = 0
     /\ log = log0
     /\ verdicts = <<>>
     /\ pc \in {"check_ollama", "returned_false", "raised"}

\* C4 witness: the server answers, the model is not listed, main() has
\* returned False without a browser.
C4_Witness ==
  /\ pc = "returned_false"
  /\ ollama_up
  /\ model \notin available_models
  /\ available_models # {}
  /\ driver = "none"

\* The location identifiers a record of this run can carry.
RecordUrls == ProfilePages \cup {StartUrl, "about:blank"}

\* The log holds a complete record with this name and this summary.
InLog(name, sum) ==
  \E i \in {k \in 1..(Len(log) - 1) : log[k] = NL /\ log[k+1] = SEP} :
    \E ts \in Timestamps, u \in RecordUrls :
      LET e == EntryText(ts, name, u, sum)
      IN i + Len(e) - 1 <= Len(log) /\ SubSeq(log, i, i + Len(e) - 1) = e

\* The verdicts of this run whose flag is true.
TrueVerdicts == {i \in 1..Len(verdicts) : verdicts[i].flag = "True"}

\* Every complete record in the log belongs to a verdict whose flag is true.
RecordsOnlyForTrueVerdicts ==
  \A r \in Responses :
    InLog(ParseName(r), ParseSummary(r)) =>
      \E i \in TrueVerdicts : /\ verdicts[i].name = ParseName(r)
                              /\ verdicts[i].summary = ParseSummary(r)

\* The location read and the log write of verdict i have completed.
Persisted(i) ==
  \/ i < Len(verdicts)
  \/ /\ pc \notin {"get_url", "save"}
     /\ fault \notin {"LocationReadFailed", "LogWriteFailed"}

NumSeparators == Cardinality({i \in 1..Len(log) : log[i] = SEP})

C6_LogAppendOnly == [][IsPrefix(log, log')]_vars

\* C6 witness: two writes on top of a log that already held a record.
C6_Witness ==
  /\ log0 # <<>>
  /\ calls["save_candidate_to_file"] = 2
  /\ pc \in {"prompt", "advance"}
  /\ Len(log) > Len(iter_log)
  /\ Len(iter_log) > Len(log0)

\* C7: from an empty log, the Nth write through save_candidate_to_file of
\* records with distinct names reports a cumulative count of exactly N,
\* also for a summary of several lines.
C7_CountEqualsWrites ==
  ( /\ log0 = <<>>
    /\ pc \in {"prompt", "advance"}
    /\ calls["save_candidate_to_file"] > iter_calls["save_candidate_to_file"]
    /\ \A i, j \in TrueVerdicts : i # j => verdicts[i].name # verdicts[j].name )
  => candidate_count = calls["save_candidate_to_file"]

\* The oracle adapter has been invoked in the current iteration.
ClassifiedThisIteration == calls["generate"] > iter_calls["generate"]

LastVerdict == verdicts[Len(verdicts)]

\* C8: a verdict whose flag is not true sends Decide directly to
\* AdvanceProfile; the location read and the log writer are not invoked in
\* that iteration and the log is the one the iteration started with.
C8_NoMatchSkipsPersist ==
  /\ []( (ClassifiedThisIteration /\ has_experience # "True") =>
           /\ log = iter_log
           /\ calls["save_candidate_to_file"]
                = iter_calls["save_candidate_to_file"]
           /\ calls["current_url"] = iter_calls["current_url"]
           /\ pc \in {"prompt", "advance", "loop", "returned_true", "raised"} )
  /\ [][ (pc = "classify" /\ pc' \notin {"classify", "raised"}
            /\ has_experience' # "True")
         => pc' \in {"prompt", "advance"} ]_vars

\* C8 witness: the second profile of a run is classified NO after the first
\* one was saved; the iteration is at AdvanceProfile with the log as it was.
C8_Witness ==
  /\ pc \in {"prompt", "advance"}
  /\ ClassifiedThisIteration
  /\ has_experience = "False"
  /\ profile_count = 2
  /\ log = iter_log
  /\ Len(log) > Len(log0)

\* C9: a verdict whose flag is true is followed by the location read and
\* then by one log write that appends exactly one record, carrying the
\* verdict's name and summary and the browser's location at that time;
\* the loop then proceeds to AdvanceProfile.
C9_MatchAppendsOneRecord ==
  /\ [][ (pc = "classify" /\ pc' \notin {"classify", "raised"}
            /\ has_experience' = "True")
         => pc' = "get_url" ]_vars
  /\ [][ (pc = "get_url" /\ pc' # "raised") => pc' = "save" ]_vars
  /\ [][ (pc = "save" /\ pc' # "raised") =>
           /\ pc' \in {"prompt", "advance"}
           /\ \E ts \in Timestamps :
                log' = log \o EntryText(ts, LastVerdict.name, location,
                                        LastVerdict.summary) ]_vars
  /\ []( (pc \in {"prompt", "advance"} /\ ClassifiedThisIteration
            /\ has_experience = "True") =>
           /\ \E ts \in Timestamps :
                log = iter_log \o EntryText(ts, LastVerdict.name,
                                            profile_url, LastVerdict.summary)
           /\ calls["save_candidate_to_file"]
                = iter_calls["save_candidate_to_file"] + 1
           /\ calls["current_url"] = iter_calls["current_url"] + 1 )

\* C9 witness: the browser moved between extraction and persistence, and
\* the record of Jane Doe carries the location read at persist time.
C9_Witness ==
  /\ pc \in {"prompt", "advance"}
  /\ ClassifiedThisIteration
  /\ has_experience = "True"
  /\ profile_url # extract_url
  /\ \E ts \in Timestamps :
       log = iter_log \o EntryText(ts, <<"Jane", "Doe">>, profile_url,
                                   <<"built", "surgical", "robot">>)

\* C10: in confirmed mode every classified profile is followed by the
\* prompt; "y" invokes advance and the loop goes on to the next extraction,
\* "q" or any other answer ends the run with no advance and no further
\* extraction, classification or log write.
C10_ConfirmedModePrompt ==
  /\ [][ (debug /\ pc \in {"classify", "save"}
            /\ pc' \notin {pc, "raised", "get_url", "save"})
         => pc' = "prompt" ]_vars
  /\ [][ (pc = "prompt" /\ pc' # "prompt") =>
           /\ log' = log
           /\ \A op \in Ops \ {"input", "quit"} : calls'[op] = calls[op]
           /\ IF response' = "y"
              THEN pc' = "advance" /\ driver' = "open"
              ELSE pc' = "returned_true" /\ driver' = "quit" ]_vars
  /\ [][ (debug /\ pc = "advance") =>
           /\ response = "y"
           /\ pc' \in {"loop", "raised"} ]_vars
  /\ [][ pc = "loop" => pc' = "extract" ]_vars
  /\ [][ ~Terminated ]_vars
  /\ [](debug => (pc = "advance" => response = "y"))

\* C10 witness: the human continued after the first profile and cancelled
\* with an answer other than "y" or "q" after the second.
C10_Witness ==
  /\ debug
  /\ pc = "returned_true"
  /\ response = "n"
  /\ Len(verdicts) = 2
  /\ calls["click_skip_button"] = 1
  /\ driver = "quit"

\* ------------------------------------------------------------------------
\* The response parser on its own: one oracle answer, parsed once.

\* main() has not been started.
MainIdle ==
  /\ pc = "idle"
  /\ debug = FALSE
  /\ ollama_up = FALSE
  /\ available_models = {}
  /\ driver = "none"
  /\ location = "none"
  /\ profile_count = 0
  /\ page_text = <<>>
  /\ has_experience = "None"
  /\ person_name = <<>>
  /\ summary = <<>>
  /\ profile_url = "none"
  /\ response = ""
  /\ log = <<>>
  /\ log0 = <<>>
  /\ candidate_count = 0
  /\ fault = ""
  /\ calls = [op \in Ops |-> 0]
  /\ iter_log = <<>>
  /\ iter_calls = [op \in Ops |-> 0]
  /\ extract_url = "none"
  /\ verdicts = <<>>

\* Lines in the oracle's answer of at most this many are explored.
MaxLines == 3

\* The lines an answer is made of.
AnswerLines ==
  { <<>>,
    <<"hello">>,
    <<"NO">>,
    <<"NAME:", "Jane", "Doe">>,
    <<"NAME:">>,
    <<"EXPERIENCE:", "YES">>,
    <<"experience:", "yes">>,
    <<"EXPERIENCE:", "NO">>,
    <<"EXPERIENCE:", "MAYBE">>,
    <<"EXPERIENCE:", "YESTERDAY">>,
    <<"EXPERIENCE:">>,
    <<"SUMMARY:", "built", "robot">>,
    <<"SUMMARY:">> }

\* "\n".join(lines)
RECURSIVE Join(_)
Join(lines) ==
  IF lines = <<>> THEN <<>>
  ELSE IF Len(lines) = 1 THEN lines[1]
  ELSE lines[1] \o <<NL>> \o Join(Tail(lines))

Answers ==
  {Join(ls) : ls \in UNION {[1..n -> AnswerLines] : n \in 0..MaxLines}}

ParserInit ==
  /\ MainIdle /\ FormatIdle /\ FormatterMainIdle
  /\ parse_input \in Answers
  /\ verdict = Unparsed

\* Lines 126-148 of analyze_text_for_interests.
ParseResponse ==
  /\ verdict = Unparsed
  /\ verdict' = analyze_text_for_interests(parse_input)
  /\ UNCHANGED <<main_vars, parse_input, format_vars, fmain_vars>>

ParserNext == ParseResponse

ParserSpec == ParserInit /\ [][ParserNext]_vars

Parsed == verdict # Unparsed

\* The text holds "EXPERIENCE: yes" / "EXPERIENCE: no" in some letter case:
\* the label, one blank, and a word that begins with the value.
ContainsExperience(t, value) ==
  \E i \in 1..(Len(t) - 1) :
    Upper(t[i]) = "EXPERIENCE:" /\ YesNoPrefix(t[i+1]) = value

FirstExperience(t, value) ==
  Min({i \in 1..(Len(t) - 1) :
         Upper(t[i]) = "EXPERIENCE:" /\ YesNoPrefix(t[i+1]) = value})

ExperienceLabelMissing(t) == \A i \in 1..Len(t) : Upper(t[i]) # "EXPERIENCE:"

\* Some EXPERIENCE label before position i is followed, on its line or after
\* line breaks, by a word that begins with YES or NO.
EarlierDecidingLabel(t, i) ==
  \E k \in 1..(i - 1) :
    /\ Upper(t[k]) = "EXPERIENCE:"
    /\ \E j \in (k+1)..Len(t) :
         /\ \A m \in (k+1)..(j-1) : t[m] = NL
         /\ YesNoPrefix(t[j]) # ""

\* C11 as stated, for the answers that do not hold both forms: the flag is
\* true for every answer that contains "EXPERIENCE: yes" in any letter case,
\* and false for every answer that contains "EXPERIENCE: no" or has no
\* EXPERIENCE label, whatever else the text holds.
C11_FlagFollowsExperienceLabel ==
  Parsed =>
    /\ ( /\ ContainsExperience(parse_input, "YES")
         /\ ~ContainsExperience(parse_input, "NO") ) => verdict.flag = "True"
    /\ ( /\ ContainsExperience(parse_input, "NO")
         /\ ~ContainsExperience(parse_input, "YES") ) => verdict.flag # "True"
    /\ ExperienceLabelMissing(parse_input) => verdict.flag # "True"

\* C11 amended: the first EXPERIENCE label that is followed by YES or NO
\* decides.  The flag is true when the text contains "EXPERIENCE: yes" (any
\* letter case) and no earlier EXPERIENCE label is followed, after blanks or
\* line breaks, by a word beginning with YES or NO; it is false (False or
\* None) in the same way for "EXPERIENCE: no", and when the label is missing.
C11_FirstExperienceLabelDecides ==
  Parsed =>
    /\ ( /\ ContainsExperience(parse_input, "YES")
         /\ ~EarlierDecidingLabel(parse_input,
                                  FirstExperience(parse_input, "YES")) )
       => verdict.flag = "True"
    /\ ( /\ ContainsExperience(parse_input, "NO")
         /\ ~EarlierDecidingLabel(parse_input,
                                  FirstExperience(parse_input, "NO")) )
       => verdict.flag = "False"
    /\ ExperienceLabelMissing(parse_input) => verdict.flag = "None"

\* C11 witness: a lower-case "experience: yes" on the last of three lines,
\* after an EXPERIENCE label that decides nothing, parsed to a true flag.
C11_Witness ==
  /\ Parsed
  /\ parse_input = Join(<< <<"hello">>, <<"EXPERIENCE:", "MAYBE">>,
                           <<"experience:", "yes">> >>)
  /\ verdict.flag = "True"

\* The three fields in protocol order and in reverse order.
Forward(name, exp, sum) ==
  Join(<< <<"NAME:">> \o name, <<"EXPERIENCE:", exp>>, <<"SUMMARY:">> \o sum >>)
Reverse(name, exp, sum) ==
  Join(<< <<"SUMMARY:">> \o sum, <<"EXPERIENCE:", exp>>, <<"NAME:">> \o name >>)

\* C12: an answer listing SUMMARY, EXPERIENCE, NAME is parsed to the same
\* verdict as the answer listing the same fields as NAME, EXPERIENCE,
\* SUMMARY.
C12_FieldOrderIndependent ==
  Parsed =>
    \A exp \in {"YES", "NO"} :
      parse_input = Reverse(<<"Jane", "Doe">>, exp, <<"built", "robot">>) =>
        verdict = analyze_text_for_interests(
                    Forward(<<"Jane", "Doe">>, exp, <<"built", "robot">>))

Labels == {"NAME:", "EXPERIENCE:", "SUMMARY:"}

\* The word that follows the first EXPERIENCE label on its own line, "" if
\* there is none.
ExperienceValue(t) ==
  LET ls == {i \in 1..Len(t) : Upper(t[i]) = "EXPERIENCE:"}
  IN IF ls = {} \/ Min(ls) = Len(t) \/ t[Min(ls) + 1] = NL THEN ""
     ELSE t[Min(ls) + 1]

\* C13: malformed input degrades to the defaults field by field: name
\* "Unknown" without NAME, flag false when EXPERIENCE is absent or its value
\* is not exactly YES or NO, summary "No summary available" without SUMMARY;
\* and no field's value is taken from another field's line.
C13_DefaultsPerField ==
  Parsed =>
    /\ (\A i \in 1..Len(parse_input) : parse_input[i] # "NAME:")
         => verdict.name = <<"Unknown">>
    /\ Upper(ExperienceValue(parse_input)) \notin {"YES", "NO"}
         => verdict.flag # "True"
    /\ (\A i \in 1..Len(parse_input) : parse_input[i] # "SUMMARY:")
         => verdict.summary = <<"No", "summary", "available">>
    /\ parse_input = <<>> =>
         verdict = [flag |-> "None", name |-> <<"Unknown">>,
                    summary |-> <<"No", "summary", "available">>]
    /\ \A k \in 1..Len(verdict.name) : verdict.name[k] \notin Labels

\* ------------------------------------------------------------------------
\* format_text_with_line_breaks (src/format_text.py).  Here a text is the
\* sequence of its atoms with the blanks written out: BLANK is one space, NL
\* a line break, and neighbouring atoms that are neither form one word
\* ("Name:" next to "a" is the word "Name:a").

BLANK == " "
FormatAtoms == {"a", BLANK, "Name:", SEP, NL}
HeaderLabels == {"Date:", "Name:", "URL:", "Reason:"}

\* Texts of at most this many atoms are explored.
MaxAtoms == 5

\* text.split('\n')
RECURSIVE SplitLines(_)
SplitLines(t) ==
  LET nl == {i \in 1..Len(t) : t[i] = NL}
  IN IF nl = {} THEN <<t>>
     ELSE <<SubSeq(t, 1, Min(nl) - 1)>>
            \o SplitLines(SubSeq(t, Min(nl) + 1, Len(t)))

\* line.strip()
StripBlanks(line) ==
  LET keep == {i \in 1..Len(line) : line[i] # BLANK}
  IN IF keep = {} THEN <<>> ELSE SubSeq(line, Min(keep), Max(keep))

\* str.split(): the words of a line.
RECURSIVE Words(_)
Words(line) ==
  LET s == StripBlanks(line)
      bl == {i \in 1..Len(s) : s[i] = BLANK}
  IN IF s = <<>> THEN <<>>
     ELSE IF bl = {} THEN <<s>>
     ELSE <<SubSeq(s, 1, Min(bl) - 1)>> \o Words(SubSeq(s, Min(bl), Len(s)))

\* ' '.join(words)
RECURSIVE JoinWords(_)
JoinWords(ws) ==
  IF ws = <<>> THEN <<>>
  ELSE IF Len(ws) = 1 THEN ws[1]
  ELSE ws[1] \o <<BLANK>> \o JoinWords(Tail(ws))

\* The loop of lines 40-48 and 67-74: a group is closed as soon as it holds
\* words_per_line words, the rest forms the last group.
RECURSIVE Chunks(_, _)
Chunks(ws, n) ==
  LET k == IF n < 1 THEN 1 ELSE n
  IN IF ws = <<>> THEN <<>>
     ELSE IF Len(ws) <= k THEN <<ws>>
     ELSE <<SubSeq(ws, 1, k)>> \o Chunks(SubSeq(ws, k + 1, Len(ws)), n)

\* line.strip().startswith('====')
IsSeparatorLine(line) ==
  StripBlanks(line) # <<>> /\ StripBlanks(line)[1] = SEP

\* any(line.startswith(header) for header in [...])
IsHeaderLine(line) == line # <<>> /\ line[1] \in HeaderLabels

\* The body of the `for line in lines` loop, lines 21-76: the output lines
\* one input line gives.
FormatLine(line, n) ==
  IF StripBlanks(line) = <<>> \/ IsSeparatorLine(line) THEN <<line>>
  ELSE IF IsHeaderLine(line)
  THEN LET groups == Chunks(Words(Tail(line)), n)
       IN IF groups = <<>> THEN <<line>>
          ELSE <<(<<line[1], BLANK>> \o JoinWords(groups[1]))>>
                 \o [i \in 1..(Len(groups) - 1) |-> JoinWords(groups[i + 1])]
  ELSE IF Len(Words(line)) > n
  THEN LET groups == Chunks(Words(line), n)
       IN [i \in 1..Len(groups) |-> JoinWords(groups[i])]
  ELSE <<line>>

RECURSIVE FormatLines(_, _)
FormatLines(lines, n) ==
  IF lines = <<>> THEN <<>>
  ELSE FormatLine(lines[1], n) \o FormatLines(Tail(lines), n)

\* format_text_with_line_breaks(text, words_per_line)
format_text_with_line_breaks(text, n) ==
  Join(FormatLines(SplitLines(text), n))

\* The formatter applied again and again to its own output.
FormatTexts == UNION {[1..k -> FormatAtoms] : k \in 0..MaxAtoms}
WordsPerLine == {1, 2}

FormatInit ==
  /\ MainIdle /\ ParserIdle /\ FormatterMainIdle
  /\ text0 \in FormatTexts
  /\ words_per_line \in WordsPerLine
  /\ passes = <<>>

ApplyFormatter ==
  /\ Len(passes) < 3
  /\ passes' = Append(passes,
                      format_text_with_line_breaks(
                        IF passes = <<>> THEN text0 ELSE passes[Len(passes)],
                        words_per_line))
  /\ UNCHANGED <<main_vars, parser_vars, text0, words_per_line, fmain_vars>>

FormatNext == ApplyFormatter

FormatSpec == FormatInit /\ [][FormatNext]_vars

\* C14: after two applications with the same setting no non-header line has
\* more than words_per_line words, and the third application returns the
\* output of the second.
C14_IdempotentFromSecondPass ==
  /\ Len(passes) >= 2 =>
       \A i \in 1..Len(SplitLines(passes[2])) :
         LET line == SplitLines(passes[2])[i]
         IN ~IsHeaderLine(line) => Len(Words(line)) <= words_per_line
  /\ Len(passes) >= 3 => passes[3] = passes[2]

\* ------------------------------------------------------------------------
\* main() of format_text.py: read recommended_candidates.txt, format it with
\* 15 words per line, write formatted_candidates.txt.

\* What the input file can be: absent, unreadable, or a text (which may
\* still fail while it is read).
InputFiles ==
  {[state |-> st, text |-> <<>>] : st \in {"missing", "unreadable"}}
    \cup {[state |-> "ok", text |-> t] : t \in UNION {[1..k -> FormatAtoms] : k \in 0..2}}

\* What the output file can be before the run: absent or left by an earlier
\* run.
OutputFiles ==
  { [exists |-> FALSE, text |-> <<>>],
    [exists |-> TRUE, text |-> <<"Name:", BLANK, "a">>] }

FormatterMainInit ==
  /\ MainIdle /\ ParserIdle /\ FormatIdle
  /\ fmt_pc = "read"
  /\ input_file \in InputFiles
  /\ content = <<>>
  /\ output_file \in OutputFiles
  /\ output_file0 = output_file

\* An except clause with the output opened for writing before the read.
ReportError_OutputOpened(out) == [exists |-> TRUE, text |-> <<>>]

\* The except clauses, lines 100-103: the error is printed, the output file
\* is what it was.
ReportError(out) == out

\* Lines 85-87: open(input_file, 'r') and file.read().
ReadInput ==
  /\ fmt_pc = "read"
  /\ \/ /\ input_file.state = "ok"
        /\ content' = input_file.text
        /\ fmt_pc' = "write"
        /\ UNCHANGED output_file
     \/ /\ output_file' = ReportError(output_file)
        /\ fmt_pc' = "read_failed"
        /\ UNCHANGED content
  /\ UNCHANGED <<main_vars, parser_vars, format_vars, input_file,
                 output_file0>>

\* Lines 89-98: format, open(output_file, 'w'), write.  open may fail before
\* the file is touched; a failing write leaves the truncated file with a
\* part of the text.
WriteOutput ==
  /\ fmt_pc = "write"
  /\ LET formatted == format_text_with_line_breaks(content, 15)
     IN \/ /\ output_file' = [exists |-> TRUE, text |-> formatted]
           /\ fmt_pc' = "done"
        \/ /\ output_file' = ReportError(output_file)
           /\ fmt_pc' = "write_failed"
        \/ \E k \in 0..Len(formatted) :
             /\ output_file' = ReportError([exists |-> TRUE,
                                            text |-> SubSeq(formatted, 1, k)])
             /\ fmt_pc' = "write_failed"
  /\ UNCHANGED <<main_vars, parser_vars, format_vars, input_file, content,
                 output_file0>>

FormatterMainNext == ReadInput \/ WriteOutput

FormatterMainSpec == FormatterMainInit /\ [][FormatterMainNext]_vars

\* C15: when reading the input file fails, the output file is neither opened
\* nor written: it is what it was before the run.
C15_ReadFailureLeavesOutput ==
  /\ [](fmt_pc = "read_failed" => output_file = output_file0)
  /\ [][ (fmt_pc = "read" /\ fmt_pc' # "write") =>
           (fmt_pc' = "read_failed" /\ output_file' = output_file) ]_vars
  /\ [](fmt_pc \in {"read", "write"} => output_file = output_file0)

\* C15 witness: the input file is missing and the output of an earlier run
\* is still there after the formatter gave up.
C15_Witness ==
  /\ fmt_pc = "read_failed"
  /\ input_file.state = "missing"
  /\ output_file0.exists
  /\ output_file = output_file0

\* C16: before the human acknowledged the manual login, nothing was
\* extracted, classified, advanced or written and the profile counter is 0;
\* the loop is entered from the login wait only by that acknowledgment.
C16_NothingBeforeAcknowledgment ==
  /\ [](calls["input"] = 0 =>
          /\ pc \in {"check_ollama", "start_browser", "maximize", "navigate",
                     "await_login", "returned_false", "raised"}
          /\ profile_count = 0
          /\ calls["get_page_text"] = 0
          /\ calls["generate"] = 0
          /\ calls["current_url"] = 0
          /\ calls["save_candidate_to_file"] = 0
          /\ calls["click_skip_button"] = 0
          /\ verdicts = <<>>
          /\ log = log0)
  /\ [][ (pc = "await_login" /\ pc' # pc) =>
           (pc' = "loop" /\ calls'["input"] = calls["input"] + 1) ]_vars
  /\ [][ (pc' = "extract" /\ profile_count' = 1) =>
           (pc = "loop" /\ calls["input"] >= 1) ]_vars

\* C16 witness: the login was acknowledged once and the first extraction is
\* about to run.
C16_Witness ==
  /\ pc = "extract"
  /\ profile_count = 1
  /\ calls["input"] = 1
  /\ calls["get_page_text"] = 0

\* C17: in autonomous mode nobody is asked after a classification and the
\* run never returns normally from the loop: a classified profile goes on to
\* the advance (through the log write when it matches), the advance to the
\* next loop entry, the loop entry to the next extraction, and only a raised
\* failure leaves the loop.
C17_AutonomousRunsUntilFailure ==
  /\ [](~debug => (pc \notin {"prompt", "returned_true"}
                     /\ calls["input"] <= 1))
  /\ []((~debug /\ Terminated /\ calls["input"] >= 1) =>
          (pc = "raised" /\ fault # ""))
  /\ [][ (~debug /\ pc = "classify" /\ pc' # pc) =>
           pc' \in {"get_url", "advance", "raised"} ]_vars
  /\ [][ (~debug /\ pc \in {"get_url", "save"} /\ pc' # pc) =>
           pc' \in {"save", "advance", "raised"} ]_vars
  /\ [][ (~debug /\ pc = "advance" /\ pc' # pc) =>
           /\ pc' \in {"loop", "raised"}
           /\ calls'["click_skip_button"] = calls["click_skip_button"] + 1
       ]_vars
  /\ [][ (pc = "loop" /\ pc' # pc) => pc' = "extract" ]_vars
  /\ []((pc = "loop" /\ profile_count < MaxProfiles) => ENABLED LoopEntry)

\* C17 witness: autonomous mode, a profile was classified and advanced past,
\* and the next extraction is about to run.
C17_Witness ==
  /\ ~debug
  /\ pc = "extract"
  /\ profile_count = 2
  /\ Len(verdicts) = 1
  /\ calls["click_skip_button"] = 1
  /\ calls["input"] = 1

\* C18: the profile counter counts the iterations entered: it is the number
\* of get_page_text calls made plus the one about to be made, it is raised
\* by the loop entry before the extraction, a skipped empty profile is
\* counted, and it is never less than the number of profiles classified.
C18_CounterCountsIterationsEntered ==
  /\ [](profile_count =
          calls["get_page_text"] + (IF pc = "extract" THEN 1 ELSE 0))
  /\ [](profile_count >= Len(verdicts))
  /\ [](pc = "skip_no_content" => profile_count > Len(verdicts))
  /\ [][ (pc = "loop" /\ pc' = "extract") =>
           /\ profile_count' = profile_count + 1
           /\ calls'["get_page_text"] = calls["get_page_text"] ]_vars
  /\ [][ profile_count' # profile_count => (pc = "loop" /\ pc' = "extract")
       ]_vars

\* C18 witness: the run ended with the summary after two iterations, one of
\* them skipped for empty content and one classified.
C18_Witness ==
  /\ pc = "returned_true"
  /\ profile_count = 2
  /\ Len(verdicts) = 1
  /\ calls["get_page_text"] = 2

\* What the current iteration has done so far.
Done(op) == calls[op] - iter_calls[op]

\* C19: one profile at a time, in the order extract, classify, decide,
\* persist, advance: a matching profile is in the log before the prompt is
\* shown and before the advance, so it is still there when the human quits;
\* an iteration advances at most once; the next extraction starts from the
\* loop entry only, after the advance.
C19_OneProfileInOrder ==
  /\ []((pc \in {"prompt", "advance", "returned_true"}
           /\ Truthy(LastVerdict.flag)) =>
          /\ Done("save_candidate_to_file") = 1
          /\ InLog(LastVerdict.name, LastVerdict.summary))
  /\ [](/\ Done("get_page_text") \in {0, 1}
        /\ Done("generate") \in {0, 1}
        /\ Done("save_candidate_to_file") \in {0, 1}
        /\ Done("click_skip_button") \in {0, 1}
        /\ Done("generate") <= Done("get_page_text")
        /\ Done("save_candidate_to_file") <= Done("generate")
        /\ Done("click_skip_button") <= Done("get_page_text"))
  /\ [](Done("click_skip_button") = 1 => pc \in {"loop", "raised"})
  /\ [](pc = "extract" => \A op \in Ops : Done(op) = 0)
  /\ [][ (pc' = "extract" /\ pc # "extract") => pc = "loop" ]_vars
  /\ []((pc = "loop" /\ profile_count > 0) => Done("click_skip_button") = 1)

\* C19 witness: the human quit at the prompt after a match, and the match is
\* in the log.
C19_Witness ==
  /\ pc = "returned_true"
  /\ response = "q"
  /\ Truthy(LastVerdict.flag)
  /\ InLog(LastVerdict.name, LastVerdict.summary)
  /\ Done("click_skip_button") = 0

\* C20: empty page text is never classified: the oracle is not called, the
\* log is not written, nobody is asked; the skip is clicked and the loop
\* goes on to its next entry (unless the click raises).
C20_EmptyTextSkipsClassification ==
  /\ [](pc = "classify" => page_text # <<>>)
  /\ [](pc = "skip_no_content" =>
          /\ page_text = <<>>
          /\ Done("generate") = 0
          /\ Done("input") = 0
          /\ log = iter_log)
  /\ [][ (pc = "extract" /\ pc' \notin {"extract", "raised"}) =>
           (pc' = "skip_no_content" <=> page_text' = <<>>) ]_vars
  /\ [][ (pc = "skip_no_content" /\ pc' # pc) =>
           /\ pc' \in {"loop", "raised"}
           /\ calls'["click_skip_button"] = calls["click_skip_button"] + 1
           /\ calls'["generate"] = calls["generate"]
           /\ calls'["input"] = calls["input"]
           /\ log' = log ]_vars

\* C20 witness: confirmed mode, the first profile had no content and was
\* skipped without a question; the second extraction is about to run.
C20_Witness ==
  /\ debug
  /\ pc = "extract"
  /\ profile_count = 2
  /\ page_text = <<>>
  /\ verdicts = <<>>
  /\ calls["click_skip_button"] = 1
  /\ calls["input"] = 1

====
